---- MODULE Spec2Model ----
(***************************************************************************)
(* Model of binary_decision_tree.cpp: the classes Interval, Decision,      *)
(* DecisionTreeNode and DecisionTree.                                      *)
(*                                                                         *)
(* A pointer to a node is a sequence: <<>> is nullptr, <<n>> points to the *)
(* node record n, so the tree is a nested record, owned exactly as the     *)
(* C++ tree is.  dimension_index is 0-based as in the source; the TLA+     *)
(* sequences are 1-based, hence area[dimension_index + 1].                 *)
(*                                                                         *)
(* The program is built with assertions enabled (its tests are assert      *)
(* statements): a failing assert aborts the process, which the model       *)
(* records in `failed`; nothing runs after it.                             *)
(*                                                                         *)
(* Coordinates range over 0..MaxCoord, far below INT_MAX, so the           *)
(* expression right + 1 of line 265 does not overflow in the model.        *)
(*                                                                         *)
(* Spec          the public methods of DecisionTree, each one atomic       *)
(* SpecBuild     one RebuildTree followed call by call through BuildTree_  *)
(* SpecBuildFair SpecBuild, a running call always taking its next step     *)
(* SpecScenario  Spec on the two areas of scenario 3 of the specification  *)
(***************************************************************************)
EXTENDS Integers, Sequences, FiniteSets

\* ---------------------------------------------------------------- bounds
MaxCoord == 2
MaxAreas == 3

VARIABLES
    dimension_,   \* DecisionTree::dimension_
    areas_,       \* DecisionTree::areas_
    dirty_,       \* DecisionTree::dirty_
    root_,        \* DecisionTree::root_ (<<>> is nullptr)
    failed,       \* an assert failed: the process has aborted
    op,           \* the last public method called
    point,        \* the argument of the last ContainsPoint (<<>> if none)
    result,       \* <<b>> if the last ContainsPoint returned b, else <<>>
    stack         \* the call stack of a running BuildTree_ (SpecBuild)

vars == <<dimension_, areas_, dirty_, root_, failed, op, point, result, stack>>

\* ------------------------------------------------------------- Interval
Interval(left, right) == [left |-> left, right |-> right]

Contains(interval, x) == interval.left <= x /\ x <= interval.right

\* the interval is to the left of the point
ToTheLeft(interval, x) == x > interval.right

\* the interval is to the right of the point
ToTheRight(interval, x) == x < interval.left

\* ------------------------------------------------------------- Decision
Decision(dimension_index, ref_value) ==
    [dimension_index |-> dimension_index, ref_value |-> ref_value]

NoDecision == Decision(-1, -1)

IsValid(decision) == decision.dimension_index >= 0

\* ----------------------------------------------------- DecisionTreeNode
NewNode ==
    [areas_to_check |-> <<>>, left |-> <<>>, right |-> <<>>, decision |-> NoDecision]

AreaContainsPoint(area, p) ==
    \A i \in 1..Len(p) : Contains(area[i], p[i])

CurrentNodeContainsPoint(node, p) ==
    \E k \in 1..Len(node.areas_to_check) : AreaContainsPoint(node.areas_to_check[k], p)

RECURSIVE FindPoint(_, _)
\* FindPoint with the two comparisons of lines 89 and 93 exchanged
FindPoint_Swapped(node, p) ==
    IF CurrentNodeContainsPoint(node, p) THEN TRUE
    ELSE IF ~IsValid(node.decision) THEN FALSE
    ELSE IF p[node.decision.dimension_index + 1] > node.decision.ref_value
         THEN (IF node.left # <<>> THEN FindPoint(node.left[1], p) ELSE FALSE)
    ELSE IF p[node.decision.dimension_index + 1] < node.decision.ref_value
         THEN (IF node.right # <<>> THEN FindPoint(node.right[1], p) ELSE FALSE)
    ELSE FALSE

FindPoint(node, p) ==
    IF CurrentNodeContainsPoint(node, p) THEN TRUE
    ELSE IF ~IsValid(node.decision) THEN FALSE
    ELSE IF p[node.decision.dimension_index + 1] < node.decision.ref_value
         THEN (IF node.left # <<>> THEN FindPoint(node.left[1], p) ELSE FALSE)
    ELSE IF p[node.decision.dimension_index + 1] > node.decision.ref_value
         THEN (IF node.right # <<>> THEN FindPoint(node.right[1], p) ELSE FALSE)
    ELSE FALSE

RECURSIVE SumAreasToCheckSizes(_)
SumAreasToCheckSizes(node) ==
    Len(node.areas_to_check)
    + (IF node.left # <<>> THEN SumAreasToCheckSizes(node.left[1]) ELSE 0)
    + (IF node.right # <<>> THEN SumAreasToCheckSizes(node.right[1]) ELSE 0)

\* ------------------------------------------------ DecisionTree::BuildTree_
\* std::sort by the right bound at dimension_index (lines 251-255), as an
\* insertion sort.  The order std::sort gives to areas with equal right bounds
\* is unspecified; this one keeps them as they were, and the caller reads only
\* the right bound at the median index, which is the same in every sorted
\* order.
InsertByRight(sorted, area, dimension_index) ==
    SelectSeq(sorted, LAMBDA a : a[dimension_index + 1].right <= area[dimension_index + 1].right)
    \o <<area>>
    \o SelectSeq(sorted, LAMBDA a : a[dimension_index + 1].right > area[dimension_index + 1].right)

\* the first n areas of all_areas, sorted
RECURSIVE SortPrefix(_, _, _)
SortPrefix(all_areas, dimension_index, n) ==
    IF n = 0 THEN <<>>
    ELSE InsertByRight(SortPrefix(all_areas, dimension_index, n - 1),
                       all_areas[n], dimension_index)

\* the sort of lines 251-255 left out
SortByRight_Unsorted(all_areas, dimension_index) == all_areas

SortByRight(all_areas, dimension_index) ==
    SortPrefix(all_areas, dimension_index, Len(all_areas))

MedianIndex(all_areas) == (Len(all_areas) - 1) \div 2

\* the threshold of line 265 without its + 1
CandidateDecision_NoPlusOne(all_areas, dimension_index) ==
    LET sorted == SortByRight(all_areas, dimension_index)
    IN  Decision(dimension_index,
                 sorted[MedianIndex(sorted) + 1][dimension_index + 1].right)

CandidateDecision(all_areas, dimension_index) ==
    LET sorted == SortByRight(all_areas, dimension_index)
    IN  Decision(dimension_index,
                 sorted[MedianIndex(sorted) + 1][dimension_index + 1].right + 1)

CutThroughCount(all_areas, decision) ==
    Cardinality({k \in 1..Len(all_areas) :
        Contains(all_areas[k][decision.dimension_index + 1], decision.ref_value)})

\* the loop of lines 248-291: `best` is <<best_decision, best_cut_through_count>>
RECURSIVE ScanDimensions(_, _, _)
ScanDimensions(all_areas, dimension_index, best) ==
    IF dimension_index >= dimension_ THEN best
    ELSE LET decision == CandidateDecision(all_areas, dimension_index)
             cut_through_count == CutThroughCount(all_areas, decision)
         IN  ScanDimensions(all_areas, dimension_index + 1,
                 IF best[1].dimension_index = -1 \/ cut_through_count < best[2]
                 THEN <<decision, cut_through_count>>
                 ELSE best)

BestDecision(areas_to_add) == ScanDimensions(areas_to_add, 0, <<NoDecision, -1>>)[1]

\* the if / else-if chain of lines 305-316
\* line 307 testing left < ref_value instead of Contains: an area that begins
\* at the threshold is put nowhere
CutThroughAreas_StrictLeft(areas_to_add, decision) ==
    SelectSeq(areas_to_add,
        LAMBDA area : /\ area[decision.dimension_index + 1].left < decision.ref_value
                      /\ decision.ref_value <= area[decision.dimension_index + 1].right)

CutThroughAreas(areas_to_add, decision) ==
    SelectSeq(areas_to_add,
        LAMBDA area : Contains(area[decision.dimension_index + 1], decision.ref_value))

\* line 309 testing the interval of dimension 0 instead of interval_for_decision
PushLeftAreas_FirstDimension(areas_to_add, decision) ==
    SelectSeq(areas_to_add,
        LAMBDA area : /\ ~Contains(area[decision.dimension_index + 1], decision.ref_value)
                      /\ ToTheLeft(area[1], decision.ref_value))

PushLeftAreas(areas_to_add, decision) ==
    SelectSeq(areas_to_add,
        LAMBDA area : /\ ~Contains(area[decision.dimension_index + 1], decision.ref_value)
                      /\ ToTheLeft(area[decision.dimension_index + 1], decision.ref_value))

PushRightAreas(areas_to_add, decision) ==
    SelectSeq(areas_to_add,
        LAMBDA area : /\ ~Contains(area[decision.dimension_index + 1], decision.ref_value)
                      /\ ~ToTheLeft(area[decision.dimension_index + 1], decision.ref_value)
                      /\ ToTheRight(area[decision.dimension_index + 1], decision.ref_value))

\* the guard without its first disjunct (line 326)
AllGoOneWay_RightOnly(areas_to_add, push_left_areas, push_right_areas) ==
    Len(push_right_areas) = Len(areas_to_add)

\* the guard left out
AllGoOneWay_Never(areas_to_add, push_left_areas, push_right_areas) == FALSE

\* the guard of lines 326-327
AllGoOneWay(areas_to_add, push_left_areas, push_right_areas) ==
    \/ Len(push_left_areas) = Len(areas_to_add)
    \/ Len(push_right_areas) = Len(areas_to_add)

\* lines 240-243: a single area is checked in the node and that is it
SingleAreaLeaf(areas_to_add) ==
    [NewNode EXCEPT !.areas_to_check = areas_to_add]

\* line 328 left out: the node keeps what the loop of lines 305-316 pushed
UnsplitNode_LoopBucket(areas_to_add, best_decision) ==
    [NewNode EXCEPT !.areas_to_check = CutThroughAreas(areas_to_add, best_decision)]

\* lines 326-333: the node keeps every area (line 328 overwrites what the loop
\* of lines 305-316 pushed) and gets neither a decision nor children
UnsplitNode(areas_to_add, best_decision) ==
    [NewNode EXCEPT !.areas_to_check = areas_to_add]

RECURSIVE BuildTree_(_)
BuildTree_(areas_to_add) ==
    IF Len(areas_to_add) = 1
    THEN SingleAreaLeaf(areas_to_add)
    ELSE LET best_decision == BestDecision(areas_to_add)
             push_left_areas == PushLeftAreas(areas_to_add, best_decision)
             push_right_areas == PushRightAreas(areas_to_add, best_decision)
         IN  IF AllGoOneWay(areas_to_add, push_left_areas, push_right_areas)
             THEN UnsplitNode(areas_to_add, best_decision)
             ELSE [areas_to_check |-> CutThroughAreas(areas_to_add, best_decision),
                   decision |-> best_decision,
                   left |-> IF push_left_areas # <<>>
                            THEN <<BuildTree_(push_left_areas)>> ELSE <<>>,
                   right |-> IF push_right_areas # <<>>
                             THEN <<BuildTree_(push_right_areas)>> ELSE <<>>]

\* BuildTree_ returning an empty node for an empty list instead of asserting
RebuildTreeRoot_EmptyNode(areas) ==
    IF Len(areas) > 0 THEN <<BuildTree_(areas)>> ELSE <<NewNode>>

\* RebuildTree's new root_: <<>> stands for the abort of assert(areas_to_add.size() > 0)
RebuildTreeRoot(areas) ==
    IF Len(areas) > 0 THEN <<BuildTree_(areas)>> ELSE <<>>

\* ---------------------------------------------------------------- inputs
\* Area coordinates lie on a grid of step d in dimension d, which keeps the
\* d-dimensional universe small; query points take every integer coordinate
\* up to MaxCoord + 1, the largest threshold a split can have.
CoordsOf(d) == {c \in 0..MaxCoord : c % d = 0}
IntervalsOf(d) == UNION {{Interval(l, r) : r \in {c \in CoordsOf(d) : c >= l}} : l \in CoordsOf(d)}
Dimensions == {1, 2}
AreasOf(d) == [1..d -> IntervalsOf(d)]
PointsOf(d) == [1..d -> 0..(MaxCoord + 1)]
\* one area and one point of the wrong arity
BadAreaOf(d) == [i \in 1..(d + 1) |-> Interval(0, 0)]
BadPointOf(d) == [i \in 1..(d + 1) |-> 0]

\* --------------------------------------------------------- DecisionTree
Init ==
    /\ dimension_ \in Dimensions
    /\ areas_ = <<>>
    /\ dirty_ = TRUE
    /\ root_ = <<>>
    /\ failed = FALSE
    /\ op = "new"
    /\ point = <<>>
    /\ result = <<>>
    /\ stack = <<>>

AddArea(area) ==
    /\ ~failed
    /\ Len(areas_) < MaxAreas
    /\ op' = "AddArea"
    /\ point' = <<>>
    /\ result' = <<>>
    /\ IF Len(area) = dimension_
       THEN /\ areas_' = Append(areas_, area)
            /\ dirty_' = TRUE
            /\ UNCHANGED failed
       ELSE /\ failed' = TRUE
            /\ UNCHANGED <<areas_, dirty_>>
    /\ UNCHANGED <<dimension_, root_, stack>>

RebuildTree ==
    /\ ~failed
    /\ op' = "RebuildTree"
    /\ point' = <<>>
    /\ result' = <<>>
    /\ LET new_root == RebuildTreeRoot(areas_)
       IN  IF new_root = <<>>
           THEN failed' = TRUE /\ UNCHANGED root_
           ELSE root_' = new_root /\ UNCHANGED failed
    /\ UNCHANGED <<dimension_, areas_, dirty_, stack>>

RebuildTreeIfDirty ==
    /\ ~failed
    /\ op' = "RebuildTreeIfDirty"
    /\ point' = <<>>
    /\ result' = <<>>
    /\ IF dirty_
       THEN LET new_root == RebuildTreeRoot(areas_)
            IN  IF new_root = <<>>
                THEN failed' = TRUE /\ UNCHANGED <<root_, dirty_>>
                ELSE root_' = new_root /\ dirty_' = FALSE /\ UNCHANGED failed
       ELSE UNCHANGED <<root_, dirty_, failed>>
    /\ UNCHANGED <<dimension_, areas_, stack>>

\* dirty_ is false only after a rebuild that returned, so root_ is a node
\* whenever line 189 dereferences it without a rebuild
ContainsPoint(p) ==
    /\ ~failed
    /\ op' = "ContainsPoint"
    /\ point' = p
    /\ IF Len(p) # dimension_
       THEN failed' = TRUE /\ result' = <<>> /\ UNCHANGED <<root_, dirty_>>
       ELSE LET new_root == IF dirty_ THEN RebuildTreeRoot(areas_) ELSE root_
            IN  IF new_root = <<>>
                THEN failed' = TRUE /\ result' = <<>> /\ UNCHANGED <<root_, dirty_>>
                ELSE /\ root_' = new_root
                     /\ dirty_' = FALSE
                     /\ result' = <<FindPoint(new_root[1], p)>>
                     /\ UNCHANGED failed
    /\ UNCHANGED <<dimension_, areas_, stack>>

Next ==
    \/ \E area \in AreasOf(dimension_) \cup {BadAreaOf(dimension_)} : AddArea(area)
    \/ RebuildTree
    \/ RebuildTreeIfDirty
    \/ \E p \in PointsOf(dimension_) \cup {BadPointOf(dimension_)} : ContainsPoint(p)

Spec == Init /\ [][Next]_vars

\* ------------------------------------------- BuildTree_, one call at a time
\* The same code as BuildTree_ above, run call by call on an explicit call
\* stack, for the claims about the recursion.  A frame is one invocation:
\* its argument, its local node and partitions, and where it stands:
\*   "entry"  at line 235          "left"   at line 339
\*   "in_left" inside the call of line 340
\*   "right"  at line 343          "in_right" inside the call of line 344
\*   "return" at a return statement (lines 242, 332, 347)
Frame(areas_to_add) ==
    [areas_to_add |-> areas_to_add, node |-> NewNode,
     push_left_areas |-> <<>>, push_right_areas |-> <<>>, pc |-> "entry"]

Top == stack[Len(stack)]

SetTop(frame) == [stack EXCEPT ![Len(stack)] = frame]

\* the areas are inserted, then RebuildTree is called once and followed to
\* its end
InsertArea(area) ==
    /\ stack = <<>>
    /\ root_ = <<>>
    /\ AddArea(area)

\* lines 199-201: RebuildTree calls BuildTree_(areas_); an empty list fails
\* the assert of line 235
BuildCall ==
    /\ ~failed
    /\ stack = <<>>
    /\ root_ = <<>>
    /\ op' = "RebuildTree"
    /\ IF Len(areas_) > 0
       THEN stack' = <<Frame(areas_)>> /\ UNCHANGED failed
       ELSE failed' = TRUE /\ UNCHANGED stack
    /\ UNCHANGED <<dimension_, areas_, dirty_, root_, point, result>>

\* lines 235-337 of one invocation
BuildEnter ==
    /\ stack # <<>>
    /\ Top.pc = "entry"
    /\ IF Len(Top.areas_to_add) = 1
       THEN stack' = SetTop([Top EXCEPT !.node = SingleAreaLeaf(Top.areas_to_add),
                                        !.pc = "return"])
       ELSE \E areas_to_add \in {Top.areas_to_add} :
            \E best_decision \in {BestDecision(areas_to_add)} :
            \E push_left_areas \in {PushLeftAreas(areas_to_add, best_decision)} :
            \E push_right_areas \in {PushRightAreas(areas_to_add, best_decision)} :
              stack' =
                IF AllGoOneWay(areas_to_add, push_left_areas, push_right_areas)
                THEN SetTop([Top EXCEPT
                       !.node = UnsplitNode(areas_to_add, best_decision),
                       !.pc = "return"])
                ELSE SetTop([Top EXCEPT
                       !.node = [NewNode EXCEPT
                                   !.areas_to_check =
                                       CutThroughAreas(areas_to_add, best_decision),
                                   !.decision = best_decision],
                       !.push_left_areas = push_left_areas,
                       !.push_right_areas = push_right_areas,
                       !.pc = "left"])
    /\ UNCHANGED <<dimension_, areas_, dirty_, root_, failed, op, point, result>>

\* lines 339-341
BuildLeft ==
    /\ stack # <<>>
    /\ Top.pc = "left"
    /\ stack' = IF Top.push_left_areas # <<>>
                THEN Append(SetTop([Top EXCEPT !.pc = "in_left"]),
                            Frame(Top.push_left_areas))
                ELSE SetTop([Top EXCEPT !.pc = "right"])
    /\ UNCHANGED <<dimension_, areas_, dirty_, root_, failed, op, point, result>>

\* lines 343-345
BuildRight ==
    /\ stack # <<>>
    /\ Top.pc = "right"
    /\ stack' = IF Top.push_right_areas # <<>>
                THEN Append(SetTop([Top EXCEPT !.pc = "in_right"]),
                            Frame(Top.push_right_areas))
                ELSE SetTop([Top EXCEPT !.pc = "return"])
    /\ UNCHANGED <<dimension_, areas_, dirty_, root_, failed, op, point, result>>

\* a return statement: the caller stores the node (lines 340, 344), or, for
\* the outermost call, RebuildTree stores it in root_ (line 201)
BuildReturn ==
    /\ stack # <<>>
    /\ Top.pc = "return"
    /\ IF Len(stack) = 1
       THEN /\ root_' = <<Top.node>>
            /\ stack' = <<>>
       ELSE LET caller == stack[Len(stack) - 1]
                callers == SubSeq(stack, 1, Len(stack) - 1)
            IN  /\ stack' = [callers EXCEPT ![Len(callers)] =
                        IF caller.pc = "in_left"
                        THEN [caller EXCEPT !.node.left = <<Top.node>>, !.pc = "right"]
                        ELSE [caller EXCEPT !.node.right = <<Top.node>>, !.pc = "return"]]
                /\ UNCHANGED root_
    /\ UNCHANGED <<dimension_, areas_, dirty_, failed, op, point, result>>

BuildStep == BuildEnter \/ BuildLeft \/ BuildRight \/ BuildReturn

NextBuild ==
    \/ \E area \in AreasOf(dimension_) \cup {BadAreaOf(dimension_)} : InsertArea(area)
    \/ BuildCall
    \/ BuildEnter
    \/ BuildLeft
    \/ BuildRight
    \/ BuildReturn

SpecBuild == Init /\ [][NextBuild]_vars

\* a running call runs on: the program is sequential
SpecBuildFair == SpecBuild /\ WF_vars(BuildStep)

BuildDone == stack = <<>> /\ root_ # <<>>

\* the call-by-call run returns the tree the operator BuildTree_ computes
BuildStepsAgree == BuildDone => root_ = <<BuildTree_(areas_)>>

\* ------------------------------------------------ scenario 3 of the spec
\* D = 1 with the areas [0,5] and [6,10], under the same operations
ScenarioAreas == {<<Interval(0, 5)>>, <<Interval(6, 10)>>}
ScenarioPoints == {<<0>>, <<5>>, <<6>>, <<10>>, <<11>>, <<100>>}

InitScenario == Init /\ dimension_ = 1

NextScenario ==
    \/ \E area \in ScenarioAreas \cup {BadAreaOf(dimension_)} : AddArea(area)
    \/ RebuildTree
    \/ RebuildTreeIfDirty
    \/ \E p \in ScenarioPoints \cup {BadPointOf(dimension_)} : ContainsPoint(p)

SpecScenario == InitScenario /\ [][NextScenario]_vars

\* ------------------------------------------------------------ the driver
\* BruteContains of the test driver (lines 371-386): the linear scan
BruteContains(p, areas) ==
    \E k \in 1..Len(areas) : \A i \in 1..Len(p) : Contains(areas[k][i], p[i])

\* ------------------------------------------------ vocabulary of the claims
\* the last operation returned and left a tree built from all of areas_
AfterRebuild ==
    ~failed /\ op \in {"RebuildTree", "RebuildTreeIfDirty", "ContainsPoint"}

Range(seq) == {seq[k] : k \in 1..Len(seq)}

\* a sequence as a multiset
BagOf(seq) == [a \in Range(seq) |-> Cardinality({k \in 1..Len(seq) : seq[k] = a})]

\* every bucket of a tree, one after the other
RECURSIVE AllBuckets(_)
AllBuckets(ptr) ==
    IF ptr = <<>> THEN <<>>
    ELSE ptr[1].areas_to_check \o AllBuckets(ptr[1].left) \o AllBuckets(ptr[1].right)

\* every node of a tree
RECURSIVE NodesOf(_)
NodesOf(ptr) ==
    IF ptr = <<>> THEN {}
    ELSE {ptr[1]} \cup NodesOf(ptr[1].left) \cup NodesOf(ptr[1].right)

\* a tree with every bucket taken as a multiset
RECURSIVE Shape(_)
Shape(ptr) ==
    IF ptr = <<>> THEN <<>>
    ELSE <<[decision |-> ptr[1].decision,
            bucket |-> BagOf(ptr[1].areas_to_check),
            left |-> Shape(ptr[1].left),
            right |-> Shape(ptr[1].right)]>>

\* the insertion orders of the same areas
OrdersOf(seq) ==
    LET n == Len(seq)
        perms == {f \in [1..n -> 1..n] : \A i, j \in 1..n : f[i] = f[j] => i = j}
    IN  {[k \in 1..n |-> seq[f[k]]] : f \in perms}

IsLeaf(node) == node.left = <<>> /\ node.right = <<>>

AllSame(areas) == \A i, j \in 1..Len(areas) : areas[i] = areas[j]

SubtreeContains(ptr, p) ==
    \E k \in 1..Len(AllBuckets(ptr)) : AreaContainsPoint(AllBuckets(ptr)[k], p)

\* both areas of scenario 3 are in, in either order, and the tree is built
Scenario3 == AfterRebuild /\ Len(areas_) = 2 /\ Range(areas_) = ScenarioAreas

\* ---------------------------------------------------------------- claims

\* C1: a ContainsPoint that returns gives exactly the answer of the linear
\* scan over all areas inserted so far, also for a point on a split threshold.
C1_EquivalenceOracle ==
    (op = "ContainsPoint" /\ ~failed) => result = <<BruteContains(point, areas_)>>

\* a point on the root's threshold, found in the root's bucket
C1_Witness ==
    /\ op = "ContainsPoint" /\ ~failed
    /\ IsValid(root_[1].decision)
    /\ point[root_[1].decision.dimension_index + 1] = root_[1].decision.ref_value
    /\ root_[1].left # <<>>
    /\ result = <<TRUE>>

\* C2: ContainsPoint on an index with no area fails and returns no boolean.
C2_EmptyQueryFails ==
    (op = "ContainsPoint" /\ areas_ = <<>>) => (failed /\ result = <<>>)

C2_Witness ==
    op = "ContainsPoint" /\ areas_ = <<>> /\ Len(point) = dimension_ /\ failed

\* C3: after every rebuild that completed, by RebuildTree itself or through
\* RebuildTreeIfDirty or ContainsPoint, the index is clean.
C3_CleanAfterRebuild == AfterRebuild => ~dirty_

\* C4: after a rebuild the buckets of the tree hold the inserted areas, each
\* exactly once: their sizes sum to the number of inserted areas.
C4_BucketConservation ==
    AfterRebuild =>
        /\ SumAreasToCheckSizes(root_[1]) = Len(areas_)
        /\ BagOf(AllBuckets(root_)) = BagOf(areas_)

\* a tree of depth two with a non-empty bucket at the root
C4_Witness ==
    /\ AfterRebuild
    /\ root_[1].areas_to_check # <<>>
    /\ root_[1].left # <<>>
    /\ IsValid(root_[1].left[1].decision)

\* C5: the tree depends only on the multiset of areas: every insertion order
\* of the same areas builds the same decisions and the same buckets (as
\* multisets), and building again gives the same tree.
C5_DeterministicShape ==
    AfterRebuild =>
        /\ root_ = <<BuildTree_(areas_)>>
        /\ op = "RebuildTree" =>
             \A order \in OrdersOf(areas_) : Shape(<<BuildTree_(order)>>) = Shape(root_)

\* three different areas, split on the second dimension
C5_Witness ==
    /\ op = "RebuildTree" /\ ~failed
    /\ Cardinality(Range(areas_)) = 3
    /\ root_[1].decision.dimension_index = 1

\* C6 as stated: in scenario 3 the root's bucket is empty and each child
\* holds one of the two areas.
C6_SeparatedChildren ==
    Scenario3 =>
        /\ root_[1].areas_to_check = <<>>
        /\ root_[1].left # <<>>
        /\ root_[1].right # <<>>
        /\ Range(AllBuckets(root_[1].left)) \cup Range(AllBuckets(root_[1].right))
             = ScenarioAreas

\* C6 as amended: in scenario 3 the root splits dimension 0 at 6, [0,5] is in
\* the left child, [6,10] contains 6 and stays in the root's bucket, and there
\* is no right child.
C6_StraddlerStaysAtRoot ==
    Scenario3 =>
        root_ = << [areas_to_check |-> << <<Interval(6, 10)>> >>,
                    decision |-> Decision(0, 6),
                    left |-> << [areas_to_check |-> << <<Interval(0, 5)>> >>,
                                 decision |-> NoDecision,
                                 left |-> <<>>, right |-> <<>>] >>,
                    right |-> <<>>] >>

C6_Witness ==
    Scenario3 /\ op = "ContainsPoint" /\ point = <<6>> /\ result = <<TRUE>>

\* C7: for N areas that are all the same, BuildTree_ makes no recursive call
\* and returns one node, with no decision and no children, holding all N.
C7_IdenticalAreasOneNode ==
    AllSame(areas_) =>
        /\ Len(stack) <= 1
        /\ BuildDone => root_ = << [areas_to_check |-> areas_,
                                    decision |-> NoDecision,
                                    left |-> <<>>, right |-> <<>>] >>

C7_Witness ==
    BuildDone /\ AllSame(areas_) /\ Len(areas_) >= 3 /\ dimension_ = 2

\* C8: after a rebuild, every node without children has a non-empty bucket.
C8_LeavesNotEmpty ==
    AfterRebuild =>
        \A node \in NodesOf(root_) : IsLeaf(node) => node.areas_to_check # <<>>

\* a splitting root whose own bucket is empty
C8_Witness ==
    AfterRebuild /\ root_[1].areas_to_check = <<>> /\ ~IsLeaf(root_[1])

\* every call of BuildTree_ has a non-empty list, strictly shorter than the
\* list of the call that made it
CallsShrink ==
    \A i \in 1..Len(stack) :
        /\ Len(stack[i].areas_to_add) > 0
        /\ i > 1 => Len(stack[i].areas_to_add) < Len(stack[i - 1].areas_to_add)

\* C9: BuildTree_ terminates on every non-empty list, every recursive call
\* being made on a strictly shorter list than its caller's.
C9_BuildTerminates == []CallsShrink /\ (stack # <<>> ~> BuildDone)

\* a call made by a call made by the outermost call
C9_Witness == Len(stack) = 3

\* C10: for the point of a query and every node with a decision: on the
\* threshold no area of either subtree contains the point, below it none of
\* the right subtree does, above it none of the left subtree does.
C10_RoutingLosesNothing ==
    (op = "ContainsPoint" /\ ~failed) =>
        \A node \in NodesOf(root_) :
            IsValid(node.decision) =>
                LET x == point[node.decision.dimension_index + 1]
                    ref_value == node.decision.ref_value
                IN  /\ x <= ref_value => ~SubtreeContains(node.right, point)
                    /\ x >= ref_value => ~SubtreeContains(node.left, point)

\* a query on the threshold of a root with two children, answered false
C10_Witness ==
    /\ op = "ContainsPoint" /\ ~failed
    /\ IsValid(root_[1].decision)
    /\ point[root_[1].decision.dimension_index + 1] = root_[1].decision.ref_value
    /\ root_[1].left # <<>>
    /\ root_[1].right # <<>>
    /\ result = <<FALSE>>

====
